---- MODULE Spec2Model ----
(***************************************************************************)
(* Intelligent Detection and Monitoring Platform: the anomaly-scoring      *)
(* pipeline (app/api/v1/sensors.py, app/ml/anomaly_detection.py,           *)
(* app/services/redis_service.py, app/services/kafka_service.py).          *)
(*                                                                         *)
(* Probabilities are percentages: 95 stands for 0.95.  Timestamps are      *)
(* whole hours of a logical clock (datetime.utcnow()).                     *)
(***************************************************************************)
EXTENDS Integers, Sequences, FiniteSets, TLC

VARIABLES
    threshold,    \* settings.MODEL_ACCURACY_THRESHOLD, in percent
    clock,        \* datetime.utcnow(), in hours
    preloaded,    \* table sensor_data: the number of rows at the start
    db,           \* table sensor_data: the rows inserted since, see Table
    cache,        \* Redis keys historical_data:{sensor_id}:24h
    tasks,        \* background tasks process_sensor_data_async, one per ingested reading
    alerts,       \* table anomaly_alerts
    model,        \* AnomalyDetectionModel.model   (run = 0: None)
    scaler,       \* AnomalyDetectionModel.scaler  (run = 0: None)
    modelFile,    \* artifact settings.MODEL_PATH: 0 absent, else the run that saved it
    scalerFile,   \* artifact *_scaler.pkl: 0 absent, else the run that saved it
    runs,         \* number of train_model calls so far
    lastTrain,    \* record of the latest train_model call
    lastLoad,     \* record of the latest load_model call
    lastPredict,  \* record of the latest predict_anomaly call
    sevIn,        \* arguments of two _determine_severity calls
    sevOut,       \* their results
    series,       \* sensor_data handed to predict_anomaly (sequence assembly)
    xseq,         \* the feature frame and the sequence X_seq handed to the classifier
    corpus,       \* training_data handed to train_model
    sequences,    \* what _create_sequences returns for it
    records,      \* table sensor_data as the REST handlers see it (all columns)
    scheduled,    \* background tasks added by create_sensor_data: (dict, row id)
    request,      \* the HTTP request being answered
    response      \* its response

vars == <<threshold, clock, preloaded, db, cache, tasks, alerts, model, scaler, modelFile,
          scalerFile, runs, lastTrain, lastLoad, lastPredict, sevIn, sevOut,
          series, xseq, corpus, sequences, records, scheduled, request, response>>

pipelineVars == <<threshold, clock, preloaded, db, cache, tasks, alerts>>
modelVars    == <<model, scaler, modelFile, scalerFile>>
trainVars    == <<runs, lastTrain, lastLoad, lastPredict>>
severityVars == <<sevIn, sevOut>>
sequenceVars == <<series, xseq>>
corpusVars   == <<corpus, sequences>>
apiVars      == <<records, scheduled, request, response>>
extraVars    == <<corpusVars, apiVars>>

----------------------------------------------------------------------------
(* Program constants *)

\* AnomalyDetectionModel.sequence_length
sequence_length == 24

\* settings.MODEL_ACCURACY_THRESHOLD default, 0.95
MODEL_ACCURACY_THRESHOLD == 95

\* decision boundary of predict_anomaly: prediction > 0.5
DecisionBoundary == 50

\* _determine_severity thresholds 0.9, 0.8, 0.6
CriticalThreshold == 90
HighThreshold == 80
MediumThreshold == 60

\* get_historical_sensor_data(sensor_id, hours=24)
hours == 24

\* cache_set(cache_key, historical_data, ttl=300)
CacheTtl == 300

\* The classifier ends in Dense(1, activation='sigmoid'): its output is in [0, 1]
Probs == 0..100

----------------------------------------------------------------------------
(* Severity policy *)

\* A plausible slip: the boundary 0.9 given to the lower tier
DetermineSeverityStrict(anomaly_score) ==
    IF anomaly_score > CriticalThreshold THEN "critical"
    ELSE IF anomaly_score >= HighThreshold THEN "high"
    ELSE IF anomaly_score >= MediumThreshold THEN "medium"
    ELSE "low"

\* A plausible slip: the labels of the two middle tiers exchanged
DetermineSeveritySwapped(anomaly_score) ==
    IF anomaly_score >= CriticalThreshold THEN "critical"
    ELSE IF anomaly_score >= HighThreshold THEN "medium"
    ELSE IF anomaly_score >= MediumThreshold THEN "high"
    ELSE "low"

\* AnomalyDetectionService._determine_severity
DetermineSeverity(anomaly_score) ==
    IF anomaly_score >= CriticalThreshold THEN "critical"
    ELSE IF anomaly_score >= HighThreshold THEN "high"
    ELSE IF anomaly_score >= MediumThreshold THEN "medium"
    ELSE "low"

----------------------------------------------------------------------------
(* Feature engine and sequence assembly (pure functions of a series).      *)
(* A point of a series is a record                                         *)
(*   [sensor_id, timestamp, value, is_anomaly, rid, src]                   *)
(* rid and src only identify the point for the properties: rid is the id   *)
(* of the sensor_data row the point describes, src is "row" for a point    *)
(* read from the store and "current" for the dict of the background task.  *)

Last(s) == s[Len(s)]
Front(s) == SubSeq(s, 1, Len(s) - 1)
Max(a, b) == IF a >= b THEN a ELSE b

RECURSIVE InsertByTimestamp(_, _)
InsertByTimestamp(s, x) ==
    IF s = <<>> THEN <<x>>
    ELSE IF Last(s).timestamp <= x.timestamp THEN Append(s, x)
    ELSE Append(InsertByTimestamp(Front(s), x), Last(s))

\* df.sort_values('timestamp'): ascending; points with equal timestamps keep
\* their input order
RECURSIVE SortValues(_)
SortValues(df) ==
    IF df = <<>> THEN <<>>
    ELSE InsertByTimestamp(SortValues(Front(df)), Last(df))

RECURSIVE SumValues(_, _, _)
SumValues(s, lo, hi) ==
    IF lo > hi THEN 0 ELSE s[hi].value + SumValues(s, lo, hi - 1)

RECURSIVE SumSquares(_, _, _)
SumSquares(s, lo, hi) ==
    IF lo > hi THEN 0 ELSE s[hi].value * s[hi].value + SumSquares(s, lo, hi - 1)

\* A plausible slip: the window one point too long
RollingStartWide(i) == Max(1, i - sequence_length)

\* first index of rolling(window=24, min_periods=1) at index i
RollingStart(i) == Max(1, i - sequence_length + 1)

Zero == [kind |-> "finite", num |-> 0, den |-> 1]

\* rolling(...).mean(): the sum of the window over its number of points
RollingMean(s, i) ==
    [kind |-> "finite", num |-> SumValues(s, RollingStart(i), i),
     den |-> i - RollingStart(i) + 1]

\* rolling(...).std() (sample deviation, ddof = 1) as its square, the variance
\* (n * sum(x^2) - sum(x)^2) / (n * (n - 1)); NaN for one point, then .fillna(0)
RollingVar(s, i) ==
    LET n  == i - RollingStart(i) + 1
        sm == SumValues(s, RollingStart(i), i)
        sq == SumSquares(s, RollingStart(i), i)
    IN IF n = 1 THEN Zero
       ELSE [kind |-> "finite", num |-> n * sq - sm * sm, den |-> n * (n - 1)]

\* A plausible slip: the first point differenced against 0 instead of filled
ValueDiffNoFill(s, i) == IF i = 1 THEN s[i].value ELSE s[i].value - s[i - 1].value

\* df['value'].diff().fillna(0)
ValueDiff(s, i) == IF i = 1 THEN 0 ELSE s[i].value - s[i - 1].value

\* df['value'].pct_change().fillna(0): (v - prev) / prev in floating point:
\* x / 0 is +-inf for x # 0 (fillna leaves it), 0 / 0 is NaN (fillna makes it 0)
ValueChangeRate(s, i) ==
    IF i = 1 THEN Zero
    ELSE LET prev == s[i - 1].value
             d    == s[i].value - prev
         IN IF prev # 0 THEN [kind |-> "finite", num |-> d, den |-> prev]
            ELSE IF d > 0 THEN [kind |-> "inf", num |-> 1, den |-> 0]
            ELSE IF d < 0 THEN [kind |-> "-inf", num |-> -1, den |-> 0]
            ELSE Zero

\* AnomalyDetectionModel._engineer_features: one feature row per point, in
\* ascending timestamp order
EngineerFeatures(df) ==
    LET s == SortValues(df)
    IN [i \in 1..Len(s) |->
          [rid |-> s[i].rid, src |-> s[i].src, timestamp |-> s[i].timestamp,
           is_anomaly |-> s[i].is_anomaly,
           value |-> s[i].value,
           hour |-> s[i].timestamp % 24,
           day_of_week |-> (s[i].timestamp \div 24) % 7,
           rolling_mean_24h |-> RollingMean(s, i),
           rolling_std_24h |-> RollingVar(s, i),
           value_diff |-> ValueDiff(s, i),
           value_change_rate |-> ValueChangeRate(s, i)]]

\* A feature row without inf: value_change_rate is the only feature that can
\* be infinite
IsFinite(row) == row.value_change_rate.kind = "finite"

\* StandardScaler.transform validates its input (NaN allowed, infinity not):
\* it raises ValueError for a frame with an infinite entry
AllFinite(X) == \A i \in 1..Len(X) : IsFinite(X[i])

\* self.scaler.transform(X): row by row, order kept; a row records the scaler
\* that scaled it
Transform(sc, X) == [i \in 1..Len(X) |-> [row |-> X[i], scaled_by |-> sc.run]]

\* A plausible slip: the first sequence_length rows instead of the last
LatestSequenceHead(X_scaled) == SubSeq(X_scaled, 1, sequence_length)

\* A plausible slip: no truncation to sequence_length
LatestSequenceAll(X_scaled) == X_scaled

\* X_scaled[-self.sequence_length:]
LatestSequence(X_scaled) ==
    SubSeq(X_scaled, Len(X_scaled) - sequence_length + 1, Len(X_scaled))

\* A plausible slip: the label of the first row of a sequence
CreateSequencesFirstLabel(data, labels) ==
    [X |-> [i \in 1..(Len(data) - sequence_length + 1) |->
               SubSeq(data, i, i + sequence_length - 1)],
     y |-> [i \in 1..(Len(data) - sequence_length + 1) |-> labels[i]]]

\* AnomalyDetectionModel._create_sequences: for i in range(len(data) - 24 + 1),
\* data[i:i + 24] and labels[i + 24 - 1] (0-based; here sequences and rows
\* are counted from 1)
CreateSequences(data, labels) ==
    [X |-> [i \in 1..(Len(data) - sequence_length + 1) |->
               SubSeq(data, i, i + sequence_length - 1)],
     y |-> [i \in 1..(Len(data) - sequence_length + 1) |->
               labels[i + sequence_length - 1]]]

\* train_model up to its call of _create_sequences: the feature frame of
\* training_data, scaled by the scaler of this run, and the labels
\* df['is_anomaly'].astype(int) of the frame's rows
TrainingSequences(training_data, run) ==
    LET df == EngineerFeatures(training_data)
        X_scaled == Transform([run |-> run, ready |-> TRUE], df)
        y == [i \in 1..Len(df) |-> IF df[i].is_anomaly THEN 1 ELSE 0]
    IN CreateSequences(X_scaled, y)

----------------------------------------------------------------------------
(* The shared AnomalyDetectionModel and its artifacts.                     *)
(* An object (classifier or scaler) is [run, ready]: run is the train_model*)
(* call that created it (an artifact shipped with the deployment has run   *)
(* 1), ready says that its fit has completed; run = 0 is None.  A model    *)
(* state ms is [model, scaler, modelFile, scalerFile]; an absent artifact  *)
(* (0) also stands for an unreadable one: loading either raises.           *)

None == [run |-> 0, ready |-> FALSE]
IsNone(x) == x.run = 0

ModelState == [model |-> model, scaler |-> scaler,
               modelFile |-> modelFile, scalerFile |-> scalerFile]

\* AnomalyDetectionModel.load_model: self.model is assigned as soon as the
\* classifier artifact is read, then the scaler artifact is read; the
\* exception of either read is re-raised
LoadModel(ms) ==
    IF ms.modelFile = 0 THEN [ms |-> ms, raised |-> TRUE, called |-> TRUE]
    ELSE LET m1 == [ms EXCEPT !.model = [run |-> ms.modelFile, ready |-> TRUE]]
         IN IF ms.scalerFile = 0 THEN [ms |-> m1, raised |-> TRUE, called |-> TRUE]
            ELSE [ms |-> [m1 EXCEPT !.scaler = [run |-> ms.scalerFile,
                                                ready |-> TRUE]],
                  raised |-> FALSE, called |-> TRUE]

\* predict_anomaly found both self.model and self.scaler set: no load_model call
NoLoad(ms) == [ms |-> ms, raised |-> FALSE, called |-> FALSE]

\* The result of predict_anomaly: outcome is "raise" (an exception left the
\* call), "insufficient" (return False, 0.0) or "scored" (the classifier ran)
PredictResult(ms, loaded, outcome, is_anomaly, score, n, X_seq) ==
    [ms |-> ms, loaded |-> loaded, outcome |-> outcome, is_anomaly |-> is_anomaly, score |-> score,
     npoints |-> n, X_seq |-> X_seq,
     used_model |-> IF outcome = "scored" THEN ms.model ELSE None,
     used_scaler |-> IF outcome = "scored" THEN ms.scaler ELSE None]

\* A plausible slip: the length test off by one (one point too few is scored)
PredictAnomalyOffByOne(ms, sensor_data, prediction) ==
    LET loaded == IF IsNone(ms.model) \/ IsNone(ms.scaler)
                  THEN LoadModel(ms) ELSE NoLoad(ms)
        m1 == loaded.ms
        n  == Len(sensor_data)
        X  == EngineerFeatures(sensor_data)
        X_scaled == Transform(m1.scaler, X)
    IN IF loaded.raised \/ ~m1.scaler.ready \/ ~AllFinite(X)
       THEN PredictResult(m1, loaded, "raise", FALSE, 0, n, <<>>)
       ELSE IF Len(X_scaled) < sequence_length - 1
       THEN PredictResult(m1, loaded, "insufficient", FALSE, 0, n, <<>>)
       ELSE PredictResult(m1, loaded, "scored", prediction > DecisionBoundary,
                          prediction, n, X_scaled)

\* AnomalyDetectionModel.predict_anomaly(sensor_data); prediction is what
\* self.model.predict returns when it is called
PredictAnomaly(ms, sensor_data, prediction) ==
    LET loaded == IF IsNone(ms.model) \/ IsNone(ms.scaler)
                  THEN LoadModel(ms) ELSE NoLoad(ms)
        m1 == loaded.ms
        n  == Len(sensor_data)
        X  == EngineerFeatures(sensor_data)
        X_scaled == Transform(m1.scaler, X)
    IN IF loaded.raised
       THEN PredictResult(m1, loaded, "raise", FALSE, 0, n, <<>>)
       ELSE IF ~m1.scaler.ready  \* transform of an unfitted scaler: NotFittedError
       THEN PredictResult(m1, loaded, "raise", FALSE, 0, n, <<>>)
       ELSE IF ~AllFinite(X)     \* transform of a frame with inf: ValueError
       THEN PredictResult(m1, loaded, "raise", FALSE, 0, n, <<>>)
       ELSE IF Len(X_scaled) < sequence_length
       THEN PredictResult(m1, loaded, "insufficient", FALSE, 0, n, <<>>)
       ELSE PredictResult(m1, loaded, "scored", prediction > DecisionBoundary,
                          prediction, n, LatestSequence(X_scaled))

\* A plausible slip: the alerting threshold is not consulted
DetectAnomalyNoThreshold(thr, pr) ==
    IF pr.outcome = "raise"
    THEN [is_anomaly |-> FALSE, anomaly_score |-> 0, severity |-> "error"]
    ELSE IF pr.is_anomaly
    THEN [is_anomaly |-> TRUE, anomaly_score |-> pr.score,
          severity |-> DetermineSeverity(pr.score)]
    ELSE [is_anomaly |-> FALSE, anomaly_score |-> pr.score, severity |-> "normal"]

\* A plausible slip: the classifier's own verdict is not consulted
DetectAnomalyNoVerdict(thr, pr) ==
    IF pr.outcome = "raise"
    THEN [is_anomaly |-> FALSE, anomaly_score |-> 0, severity |-> "error"]
    ELSE IF pr.score >= thr
    THEN [is_anomaly |-> TRUE, anomaly_score |-> pr.score,
          severity |-> DetermineSeverity(pr.score)]
    ELSE [is_anomaly |-> FALSE, anomaly_score |-> pr.score, severity |-> "normal"]

\* A plausible slip: the severity of an anomalous result left at its default
DetectAnomalyNoSeverity(thr, pr) ==
    IF pr.outcome = "raise"
    THEN [is_anomaly |-> FALSE, anomaly_score |-> 0, severity |-> "error"]
    ELSE [is_anomaly |-> pr.is_anomaly /\ pr.score >= thr,
          anomaly_score |-> pr.score, severity |-> "normal"]

\* AnomalyDetectionService.detect_anomaly, given the result pr of its call
\* predict_anomaly(historical_data + [current_data]): the dict it returns
\* (message, timestamp, sensor_id and sensor_value are copied from
\* current_data by create_anomaly_alert's caller and are not kept here)
DetectAnomaly(thr, pr) ==
    IF pr.outcome = "raise"
    THEN [is_anomaly |-> FALSE, anomaly_score |-> 0, severity |-> "error"]
    ELSE IF pr.is_anomaly /\ pr.score >= thr
    THEN [is_anomaly |-> TRUE, anomaly_score |-> pr.score,
          severity |-> DetermineSeverity(pr.score)]
    ELSE [is_anomaly |-> FALSE, anomaly_score |-> pr.score, severity |-> "normal"]

\* The steps of train_model at which an exception can leave the call, in
\* program order, and "ok" for a call that returns its metrics:
\*   features    pd.DataFrame / _engineer_features / column selection (93-100)
\*   scaler_fit  self.scaler.fit_transform (104), after self.scaler = StandardScaler()
\*   split       _create_sequences / train_test_split / _create_model (107-115)
\*   fit         self.model.fit (122), after self.model = _create_model(...)
\*   evaluate    self.model.predict and the metrics (132-139)
\*   save_model  self.model.save (183)
\*   save_scaler joblib.dump (188)
TrainStages == <<"features", "scaler_fit", "split", "fit", "evaluate",
                 "save_model", "save_scaler", "ok">>

StageIndex(stage) == CHOOSE i \in 1..Len(TrainStages) : TrainStages[i] = stage

\* AnomalyDetectionModel.train_model together with _save_model: the model
\* state after call number r that stops at `stage`.  The call has no
\* suspension point (its only await is of _save_model, which awaits nothing).
TrainModel(ms, r, stage) ==
    LET k == StageIndex(stage)
    IN [model      |-> IF k >= 4 THEN [run |-> r, ready |-> k >= 5] ELSE ms.model,
        scaler     |-> IF k >= 2 THEN [run |-> r, ready |-> k >= 3] ELSE ms.scaler,
        modelFile  |-> IF k >= 7 THEN r ELSE ms.modelFile,
        scalerFile |-> IF k >= 8 THEN r ELSE ms.scalerFile]

----------------------------------------------------------------------------
(* Values of the variables a specification does not use *)

NoTrain   == [run |-> 0, stage |-> "none", pre |-> <<None, None>>,
              post |-> <<None, None>>]
NoLoadYet == [called |-> FALSE, raised |-> FALSE, modelFile |-> 0,
              scalerFile |-> 0, pre_model |-> None, model |-> None,
              scaler |-> None]
NoPredict == [outcome |-> "none", npoints |-> 0, used_model |-> None,
              used_scaler |-> None]
NoSequence == [outcome |-> "none", features |-> <<>>, X_seq |-> <<>>]

IdlePipeline ==
    /\ threshold = MODEL_ACCURACY_THRESHOLD
    /\ clock = 0
    /\ preloaded = 0
    /\ db = <<>>
    /\ cache = <<>>
    /\ tasks = <<>>
    /\ alerts = <<>>

IdleModel == model = None /\ scaler = None /\ modelFile = 0 /\ scalerFile = 0
IdleTrain == runs = 0 /\ lastTrain = NoTrain /\ lastLoad = NoLoadYet
             /\ lastPredict = NoPredict
IdleSeverity == sevIn = <<0, 0>> /\ sevOut = <<"none", "none">>
IdleSequence == series = <<>> /\ xseq = NoSequence
NoSequences == [called |-> FALSE, X |-> <<>>, y |-> <<>>]
IdleCorpus == corpus = <<>> /\ sequences = NoSequences
NoRequest == [op |-> "none"]
IdleApi == records = <<>> /\ scheduled = <<>> /\ request = NoRequest
           /\ response = NoRequest
IdleExtra == IdleCorpus /\ IdleApi

\* The artifacts and objects of a deployment whose model was trained by run 1
ShippedModel == [model |-> [run |-> 1, ready |-> TRUE],
                 scaler |-> [run |-> 1, ready |-> TRUE],
                 modelFile |-> 1, scalerFile |-> 1]

----------------------------------------------------------------------------
(* Specification SpecSeverity: _determine_severity applied to two scores *)

InitSeverity ==
    /\ sevIn \in Probs \X Probs
    /\ sevOut = <<"none", "none">>
    /\ IdlePipeline /\ IdleModel /\ IdleTrain /\ IdleSequence /\ IdleExtra

Classify ==
    /\ sevOut = <<"none", "none">>
    /\ sevOut' = <<DetermineSeverity(sevIn[1]), DetermineSeverity(sevIn[2])>>
    /\ UNCHANGED <<sevIn, pipelineVars, modelVars, trainVars, sequenceVars,
                   extraVars>>

NextSeverity == Classify

SpecSeverity == InitSeverity /\ [][NextSeverity]_vars

----------------------------------------------------------------------------
(* Specification SpecSequence: predict_anomaly's sequence assembly applied *)
(* to series of up to MaxSeriesLen points                                  *)

MaxSeriesLen == 26

\* The value of the point with timestamp t
ValueAt(t) == IF t % 5 = 0 THEN 0 ELSE 20 + (t % 3)

\* The value of the point with timestamp t of a series without zero readings
SteadyValueAt(t) == 20 + (t % 3)

\* A series of len points with the timestamps 1..len, handed over rotated by
\* rot places (rot = 0: in chronological order)
RotatedSeries(len, rot) ==
    [i \in 1..len |->
        LET t == ((i + rot - 1) % len) + 1
        IN [sensor_id |-> "s1", timestamp |-> t, value |-> ValueAt(t),
            is_anomaly |-> FALSE, rid |-> t, src |-> "row"]]

\* The same series without its zero readings
SteadySeries(len, rot) ==
    [i \in 1..len |->
        [RotatedSeries(len, rot)[i] EXCEPT
            !.value = SteadyValueAt(RotatedSeries(len, rot)[i].timestamp)]]

InitSequence ==
    /\ \E len \in 0..MaxSeriesLen : \E rot \in 0..Max(0, len - 1) :
          series \in {RotatedSeries(len, rot), SteadySeries(len, rot)}
    /\ xseq = NoSequence
    /\ IdlePipeline /\ IdleModel /\ IdleTrain /\ IdleSeverity /\ IdleExtra

AssembleSequence ==
    /\ xseq.outcome = "none"
    /\ \E prediction \in {10, 99} :
          LET pr == PredictAnomaly(ShippedModel, series, prediction)
          IN xseq' = [outcome |-> pr.outcome,
                      features |-> EngineerFeatures(series),
                      X_seq |-> pr.X_seq]
    /\ UNCHANGED <<series, pipelineVars, modelVars, trainVars, severityVars,
                   extraVars>>

NextSequence == AssembleSequence

SpecSequence == InitSequence /\ [][NextSequence]_vars

----------------------------------------------------------------------------
(* Specification SpecCorpus: train_model's sequence construction applied   *)
(* to labelled corpora of up to MaxCorpusLen rows                          *)

MaxCorpusLen == 27

\* A corpus of len rows, rotated by rot places, in which the rows whose
\* timestamp is a multiple of every are labelled anomalous
LabelledCorpus(len, rot, every) ==
    [i \in 1..len |->
        [SteadySeries(len, rot)[i] EXCEPT
            !.is_anomaly = (SteadySeries(len, rot)[i].timestamp % every = 0)]]

InitCorpus ==
    /\ \E len \in 0..MaxCorpusLen : \E rot \in {0, 1, 5} : \E every \in {2, 3} :
          corpus = LabelledCorpus(len, IF len = 0 THEN 0 ELSE rot % len, every)
    /\ sequences = NoSequences
    /\ IdlePipeline /\ IdleModel /\ IdleTrain /\ IdleSeverity /\ IdleSequence
    /\ IdleApi

CreateSequencesCall ==
    /\ ~sequences.called
    /\ \E sq \in {TrainingSequences(corpus, 1)} :
          sequences' = [called |-> TRUE, X |-> sq.X, y |-> sq.y]
    /\ UNCHANGED <<corpus, pipelineVars, modelVars, trainVars, severityVars,
                   sequenceVars, apiVars>>

NextCorpus == CreateSequencesCall

SpecCorpus == InitCorpus /\ [][NextCorpus]_vars

----------------------------------------------------------------------------
(* Specification SpecModel: the calls train_model, load_model and          *)
(* predict_anomaly on the shared AnomalyDetectionModel, and the restart of *)
(* the process (module import constructs a new AnomalyDetectionService).   *)
(* None of the three calls has a suspension point, so each is one step.    *)

MaxRuns == 2

InitModel ==
    /\ IdleModel /\ IdleTrain
    /\ IdlePipeline /\ IdleSeverity /\ IdleSequence /\ IdleExtra

SetModelState(ms) ==
    /\ model' = ms.model
    /\ scaler' = ms.scaler
    /\ modelFile' = ms.modelFile
    /\ scalerFile' = ms.scalerFile

LoadRecord(ms, loaded) ==
    [called |-> TRUE, raised |-> loaded.raised, modelFile |-> ms.modelFile,
     scalerFile |-> ms.scalerFile, pre_model |-> ms.model,
     model |-> loaded.ms.model, scaler |-> loaded.ms.scaler]

TrainModelCall ==
    /\ runs < MaxRuns
    /\ \E i \in 1..Len(TrainStages) :
          LET ms == TrainModel(ModelState, runs + 1, TrainStages[i])
          IN /\ SetModelState(ms)
             /\ lastTrain' = [run |-> runs + 1, stage |-> TrainStages[i],
                              pre |-> <<model, scaler>>,
                              post |-> <<ms.model, ms.scaler>>]
    /\ runs' = runs + 1
    /\ UNCHANGED <<lastLoad, lastPredict, pipelineVars, severityVars, sequenceVars,
                   extraVars>>

LoadModelCall ==
    /\ LET loaded == LoadModel(ModelState)
       IN /\ SetModelState(loaded.ms)
          /\ lastLoad' = LoadRecord(ModelState, loaded)
    /\ UNCHANGED <<runs, lastTrain, lastPredict, pipelineVars, severityVars,
                   sequenceVars, extraVars>>

PredictAnomalyCall ==
    /\ \E len \in {sequence_length - 1, sequence_length} :
       \E prediction \in {10, 99} :
          LET pr == PredictAnomaly(ModelState, SteadySeries(len, 0), prediction)
          IN /\ SetModelState(pr.ms)
             /\ lastPredict' = [outcome |-> pr.outcome, npoints |-> pr.npoints,
                                used_model |-> pr.used_model,
                                used_scaler |-> pr.used_scaler]
             /\ lastLoad' = IF pr.loaded.called
                            THEN LoadRecord(ModelState, pr.loaded) ELSE lastLoad
    /\ UNCHANGED <<runs, lastTrain, pipelineVars, severityVars, sequenceVars,
                   extraVars>>

Restart ==
    /\ model' = None
    /\ scaler' = None
    /\ UNCHANGED <<modelFile, scalerFile, trainVars, pipelineVars, severityVars,
                   sequenceVars, extraVars>>

NextModel == TrainModelCall \/ LoadModelCall \/ PredictAnomalyCall \/ Restart

SpecModel == InitModel /\ [][NextModel]_vars

----------------------------------------------------------------------------
(* Specification Spec: ingestion (create_sensor_data) and the background   *)
(* task process_sensor_data_async.  A task takes one step per suspension   *)
(* point (an awaited call on Redis, Kafka or the database); everything     *)
(* between two suspension points is part of one step.  A call on Redis,    *)
(* Kafka or the database can fail at any time (ok = FALSE).                *)

MaxReadings == 2
MaxTicks == 1

Sensors == {"s1", "s2"}

\* The readings that are ingested: sensor s1, whose earlier readings were 20,
\* reports 200; sensor s2 reports 20
Readings == {<<"s1", 200>>, <<"s2", 20>>}

\* What self.model.predict returns in this specification
PredictionValues == {45, 70, 95}

\* settings.MODEL_ACCURACY_THRESHOLD: the default, or set by the environment
Thresholds == {MODEL_ACCURACY_THRESHOLD, 40}

\* utcnow() when the specification starts
InitialClock == hours + 1

\* Earlier readings of sensor s1 in the store when the specification starts,
\* one per hour, already processed (too few points then: False, 0.0); sensor
\* s2 has no history
Preloaded(k) ==
    [i \in 1..k |-> [sensor_id |-> "s1", timestamp |-> i, value |-> 20,
                     is_anomaly |-> FALSE, anomaly_score |-> 0]]

Preloads == {sequence_length - 3, sequence_length - 2}

\* The model states the service can be in when the specification starts: no
\* artifacts at all; the artifacts of run 1, not loaded yet; the artifacts
\* of run 1 loaded and, since then, a second train_model that stopped in
\* scaler.fit_transform
InitialModelStates ==
    { [model |-> None, scaler |-> None, modelFile |-> 0, scalerFile |-> 0],
      [ShippedModel EXCEPT !.model = None, !.scaler = None],
      TrainModel(ShippedModel, 2, "scaler_fit") }

\* Table sensor_data: row number id has id id.  The rows present at the
\* start are not written again (no task is scheduled for them)
Table == Preloaded(preloaded) \o db

\* The result of the history query is kept as the query's start_time, the
\* number of rows the table had (upto) and the ids of the rows that were
\* flagged is_anomaly then; rows are never deleted and their sensor_id,
\* timestamp and value never change, so WindowDicts gives back the list of
\* dicts that get_historical_sensor_data built
NoWindow == [start_time |-> 0, upto |-> 0, flagged |-> {}]

NoCache == [present |-> FALSE, data |-> NoWindow, ttl |-> 0]

NoResult == [is_anomaly |-> FALSE, anomaly_score |-> 0, severity |-> "none"]

Init ==
    /\ threshold \in Thresholds
    /\ clock = InitialClock
    /\ preloaded \in Preloads
    /\ db = <<>>
    /\ cache = [s \in Sensors |-> NoCache]
    /\ tasks = <<>>
    /\ alerts = <<>>
    /\ \E ms \in InitialModelStates :
          /\ model = ms.model
          /\ scaler = ms.scaler
          /\ modelFile = ms.modelFile
          /\ scalerFile = ms.scalerFile
    /\ IdleTrain /\ IdleSeverity /\ IdleSequence /\ IdleExtra

otherVars == <<trainVars, severityVars, sequenceVars, extraVars>>

\* The background task process_sensor_data_async(sensor_data, sensor_data_id)
\* as it is scheduled; source, outcome, npoints, prob and usable record, for
\* the properties, what the calls in progress did
NewTask(s, v, id) ==
    [sensor_data |-> [sensor_id |-> s, value |-> v, timestamp |-> 0],
     sensor_data_id |-> id,
     pc |-> "publish_redis",
     historical_data |-> NoWindow,
     detection_result |-> NoResult,
     source |-> "none",
     outcome |-> "none", npoints |-> 0, prob |-> -1,
     usable |-> FALSE]

\* A plausible slip: the task is scheduled although the row was not committed
CreateSensorDataUncommitted(s, v) ==
    /\ db' = db
    /\ tasks' = Append(tasks, NewTask(s, v, preloaded + Len(db) + 1))
    /\ UNCHANGED <<threshold, clock, preloaded, cache, alerts, modelVars, otherVars>>

\* create_sensor_data: the row is committed (timestamp and is_anomaly take
\* their column defaults) and the background task is scheduled with
\* sensor_data.dict(), which has no timestamp, and the row's id
CreateSensorData(s, v) ==
    /\ LET id == preloaded + Len(db) + 1
       IN /\ db' = Append(db, [sensor_id |-> s, timestamp |-> clock,
                               value |-> v, is_anomaly |-> FALSE,
                               anomaly_score |-> -1])
          /\ tasks' = Append(tasks, NewTask(s, v, id))
    /\ UNCHANGED <<threshold, clock, preloaded, cache, alerts, modelVars, otherVars>>

\* POST /sensors/data, at most MaxReadings times
Ingest(s, v) ==
    /\ Len(tasks) < MaxReadings
    /\ CreateSensorData(s, v)

\* One hour passes: every cache entry (ttl 300 s) has expired
Tick ==
    /\ clock < InitialClock + MaxTicks
    /\ clock' = clock + 1
    /\ cache' = [s \in Sensors |-> NoCache]
    /\ UNCHANGED <<threshold, preloaded, db, tasks, alerts, modelVars, otherVars>>

\* Redis drops key historical_data:{s}:24h when its ttl has run out
CacheExpire(s) ==
    /\ cache[s].present
    /\ cache' = [cache EXCEPT ![s] = NoCache]
    /\ UNCHANGED <<threshold, clock, preloaded, db, tasks, alerts, modelVars, otherVars>>

SetTask(i, t) == tasks' = [tasks EXCEPT ![i] = t]

\* The task has returned: its locals are gone
Finished(t, pc) ==
    [t EXCEPT !.pc = pc, !.sensor_data.timestamp = 0,
              !.historical_data = NoWindow, !.source = "none",
              !.outcome = "none", !.npoints = 0,
              !.prob = -1, !.usable = FALSE]

\* process_sensor_data_async, redis_service.publish_sensor_data: an error is
\* re-raised and ends the task in its except branch
PublishRedis(i) ==
    /\ tasks[i].pc = "publish_redis"
    /\ \E ok \in BOOLEAN :
          SetTask(i, IF ok THEN [tasks[i] EXCEPT !.pc = "produce_kafka"]
                     ELSE Finished(tasks[i], "failed"))
    /\ UNCHANGED <<threshold, clock, preloaded, db, cache, alerts, modelVars, otherVars>>

\* kafka_service.produce_sensor_data: adds sensor_data['timestamp'] = utcnow()
\* to the task's dict (it has none), then sends; an error is re-raised
ProduceKafka(i) ==
    /\ tasks[i].pc = "produce_kafka"
    /\ \E ok \in BOOLEAN :
          LET t == [tasks[i] EXCEPT !.sensor_data.timestamp = clock]
          IN SetTask(i, IF ok THEN [t EXCEPT !.pc = "cache_get"]
                        ELSE Finished(t, "failed"))
    /\ UNCHANGED <<threshold, clock, preloaded, db, cache, alerts, modelVars, otherVars>>

\* The dict get_historical_sensor_data builds of row number id
RowDict(rows, id, is_anomaly) ==
    [sensor_id |-> rows[id].sensor_id, timestamp |-> rows[id].timestamp,
     value |-> rows[id].value, is_anomaly |-> is_anomaly,
     rid |-> id, src |-> "row"]

RECURSIVE SelectRows(_, _, _, _)
SelectRows(rows, n, s, start_time) ==
    IF n = 0 THEN <<>>
    ELSE LET rest == SelectRows(rows, n - 1, s, start_time)
         IN IF rows[n].sensor_id = s /\ rows[n].timestamp >= start_time
            THEN Append(rest, RowDict(rows, n, rows[n].is_anomaly)) ELSE rest

\* select(SensorData).where(sensor_id == s, timestamp >= start_time)
\* .order_by(timestamp), each row converted to its dict; rows of equal
\* timestamp come in id order
HistoricalQuery(rows, s, start_time) ==
    SortValues(SelectRows(rows, Len(rows), s, start_time))

\* A plausible slip: the query without its horizon
QueryWindowNoHorizon(rows, s, start_time) ==
    [start_time |-> 0, upto |-> Len(rows),
     flagged |-> {id \in 1..Len(rows) :
                     rows[id].sensor_id = s /\ rows[id].is_anomaly}]

\* The window that HistoricalQuery(rows, s, start_time) returns now
QueryWindow(rows, s, start_time) ==
    [start_time |-> start_time, upto |-> Len(rows),
     flagged |-> {id \in 1..Len(rows) :
                     /\ rows[id].sensor_id = s
                     /\ rows[id].timestamp >= start_time
                     /\ rows[id].is_anomaly}]

\* The list of dicts of window w of sensor s
WindowDicts(rows, s, w) ==
    LET then == [id \in 1..w.upto |->
                    [rows[id] EXCEPT !.is_anomaly = (id \in w.flagged)]]
    IN HistoricalQuery(then, s, w.start_time)

\* The rows a window of sensor s holds
WindowRids(rows, s, w) ==
    {id \in 1..w.upto : rows[id].sensor_id = s /\ rows[id].timestamp >= w.start_time}

\* get_historical_sensor_data, redis_service.cache_get: a non-empty cached
\* value is returned as it is (json.loads of the json.dumps of a list of
\* dicts of strings, floats and booleans gives the list back); a miss, an
\* empty list or a Redis error (cache_get returns None) goes on to the database
CacheGet(i) ==
    /\ tasks[i].pc = "cache_get"
    /\ LET s == tasks[i].sensor_data.sensor_id
       IN \E ok \in BOOLEAN :
             IF ok /\ cache[s].present /\ WindowRids(Table, s, cache[s].data) # {}
             THEN SetTask(i, [tasks[i] EXCEPT
                        !.historical_data = cache[s].data,
                        !.source = "cache",
                        !.pc = "detect"])
             ELSE SetTask(i, [tasks[i] EXCEPT !.pc = "db_query"])
    /\ UNCHANGED <<threshold, clock, preloaded, db, cache, alerts, modelVars, otherVars>>

\* A plausible slip: the error of the database query is not caught and ends
\* the task
DbQueryReraise(i) ==
    /\ tasks[i].pc = "db_query"
    /\ LET s == tasks[i].sensor_data.sensor_id
       IN \E ok \in BOOLEAN :
             IF ok
             THEN SetTask(i, [tasks[i] EXCEPT
                        !.historical_data = QueryWindow(Table, s, clock - hours),
                        !.pc = "cache_set"])
             ELSE SetTask(i, [tasks[i] EXCEPT
                        !.historical_data = NoWindow, !.source = "error",
                        !.pc = "failed"])
    /\ UNCHANGED <<threshold, clock, preloaded, db, cache, alerts, modelVars, otherVars>>

\* get_historical_sensor_data, the database query: an error returns []
DbQuery(i) ==
    /\ tasks[i].pc = "db_query"
    /\ LET s == tasks[i].sensor_data.sensor_id
       IN \E ok \in BOOLEAN :
             IF ok
             THEN SetTask(i, [tasks[i] EXCEPT
                        !.historical_data = QueryWindow(Table, s, clock - hours),
                        !.pc = "cache_set"])
             ELSE SetTask(i, [tasks[i] EXCEPT
                        !.historical_data = NoWindow, !.source = "error",
                        !.pc = "detect"])
    /\ UNCHANGED <<threshold, clock, preloaded, db, cache, alerts, modelVars, otherVars>>

\* A plausible slip: the cache key built without the sensor_id
CacheSetSharedKey(i) ==
    /\ tasks[i].pc = "cache_set"
    /\ cache' = [s \in Sensors |->
                    [present |-> TRUE, data |-> tasks[i].historical_data,
                     ttl |-> CacheTtl]]
    /\ SetTask(i, [tasks[i] EXCEPT !.source = "store", !.pc = "detect"])
    /\ UNCHANGED <<threshold, clock, preloaded, db, alerts, modelVars, otherVars>>

\* get_historical_sensor_data, redis_service.cache_set(key, data, ttl=300):
\* cache_set re-raises a Redis error and get_historical_sensor_data then
\* returns []
CacheSet(i) ==
    /\ tasks[i].pc = "cache_set"
    /\ LET s == tasks[i].sensor_data.sensor_id
           h == tasks[i].historical_data
       IN \E ok \in BOOLEAN :
             IF ok
             THEN /\ cache' = [cache EXCEPT ![s] =
                          [present |-> TRUE, data |-> h, ttl |-> CacheTtl]]
                  /\ SetTask(i, [tasks[i] EXCEPT !.source = "store",
                                                 !.pc = "detect"])
             ELSE /\ cache' = cache
                  /\ SetTask(i, [tasks[i] EXCEPT
                        !.historical_data = NoWindow, !.source = "error",
                        !.pc = "detect"])
    /\ UNCHANGED <<threshold, clock, preloaded, db, alerts, modelVars, otherVars>>

\* The task's dict as a point of the series
CurrentPoint(t) ==
    [sensor_id |-> t.sensor_data.sensor_id, timestamp |-> t.sensor_data.timestamp,
     value |-> t.sensor_data.value, is_anomaly |-> FALSE,
     rid |-> t.sensor_data_id, src |-> "current"]

\* predict_anomaly can go past load_model and scaler.transform
ModelUsable(ms) ==
    IF IsNone(ms.model) \/ IsNone(ms.scaler)
    THEN ms.modelFile # 0 /\ ms.scalerFile # 0
    ELSE ms.scaler.ready

\* anomaly_detection_service.detect_anomaly(sensor_data, historical_data):
\* all_data = historical_data + [current_data], predict_anomaly (which may
\* load the model), the result dict; no suspension point
Detect(i) ==
    /\ tasks[i].pc = "detect"
    /\ \E prediction \in PredictionValues :
          LET t == tasks[i]
              all_data == Append(WindowDicts(Table, t.sensor_data.sensor_id,
                                             t.historical_data),
                                 CurrentPoint(t))
          IN \E pr \in {PredictAnomaly(ModelState, all_data, prediction)} :
             /\ SetModelState(pr.ms)
             /\ SetTask(i, [t EXCEPT
                    !.detection_result = DetectAnomaly(threshold, pr),
                    !.historical_data = NoWindow,
                    !.source = "none",
                    !.outcome = pr.outcome,
                    !.npoints = pr.npoints,
                    !.prob = IF pr.outcome = "scored" THEN pr.score ELSE -1,
                    !.usable = ModelUsable(ModelState),
                    !.pc = "update_status"])
    /\ UNCHANGED <<threshold, clock, preloaded, db, cache, alerts, otherVars>>

\* update_sensor_anomaly_status: the row gets is_anomaly and anomaly_score
\* of the result; a database error is logged and swallowed.  Then
\* create_anomaly_alert is called if the result says is_anomaly
UpdateStatus(i) ==
    /\ tasks[i].pc = "update_status"
    /\ LET t == tasks[i]
           r == t.detection_result
       IN /\ \E ok \in BOOLEAN :
                db' = IF ok
                      THEN [db EXCEPT
                              ![t.sensor_data_id - preloaded].is_anomaly = r.is_anomaly,
                              ![t.sensor_data_id - preloaded].anomaly_score = r.anomaly_score]
                      ELSE db
          /\ SetTask(i, IF r.is_anomaly THEN [t EXCEPT !.pc = "create_alert"]
                        ELSE Finished(t, "done"))
    /\ UNCHANGED <<threshold, clock, preloaded, cache, alerts, modelVars, otherVars>>

\* create_anomaly_alert: the alert is committed, then published to Kafka;
\* an error of either is logged and swallowed (a failed commit stores nothing)
CreateAlert(i) ==
    /\ tasks[i].pc = "create_alert"
    /\ LET t == tasks[i]
           r == t.detection_result
       IN \E committed \in BOOLEAN :
             alerts' = IF committed
                       THEN Append(alerts,
                              [id |-> Len(alerts) + 1,
                               sensor_id |-> t.sensor_data.sensor_id,
                               severity |-> r.severity,
                               anomaly_score |-> r.anomaly_score,
                               sensor_value |-> t.sensor_data.value,
                               timestamp |-> clock,
                               resolved |-> FALSE,
                               resolved_at |-> 0,
                               rid |-> t.sensor_data_id])
                       ELSE alerts
    /\ SetTask(i, Finished(tasks[i], "done"))
    /\ UNCHANGED <<threshold, clock, preloaded, db, cache, modelVars, otherVars>>

\* resolve_anomaly_alert (POST /alerts/{alert_id}/resolve) and the GraphQL
\* mutation resolve_alert, for an alert that exists: resolved and resolved_at
\* are set, whether or not the alert was resolved before (resolved_at 0: NULL)
ResolveAlert(a) ==
    /\ alerts' = [alerts EXCEPT ![a].resolved = TRUE, ![a].resolved_at = clock]
    /\ UNCHANGED <<threshold, clock, preloaded, db, cache, tasks, modelVars, otherVars>>

Next ==
    \/ \E r \in Readings : Ingest(r[1], r[2])
    \/ Tick
    \/ \E s \in Sensors : CacheExpire(s)
    \/ \E a \in 1..Len(alerts) : ResolveAlert(a)
    \/ \E i \in 1..Len(tasks) :
          \/ PublishRedis(i)
          \/ ProduceKafka(i)
          \/ CacheGet(i)
          \/ DbQuery(i)
          \/ CacheSet(i)
          \/ Detect(i)
          \/ UpdateStatus(i)
          \/ CreateAlert(i)

Spec == Init /\ [][Next]_vars

----------------------------------------------------------------------------
(* Specification SpecBurst: up to MaxBurst readings of one sensor, posted  *)
(* within the same five minutes, and their background tasks.  The sensor   *)
(* has 21 earlier readings; the model of run 1 is loaded.                  *)

MaxBurst == 3

InitBurst ==
    /\ threshold = MODEL_ACCURACY_THRESHOLD
    /\ clock = InitialClock
    /\ preloaded = sequence_length - 3
    /\ db = <<>>
    /\ cache = [s \in Sensors |-> NoCache]
    /\ tasks = <<>>
    /\ alerts = <<>>
    /\ model = ShippedModel.model
    /\ scaler = ShippedModel.scaler
    /\ modelFile = ShippedModel.modelFile
    /\ scalerFile = ShippedModel.scalerFile
    /\ IdleTrain /\ IdleSeverity /\ IdleSequence /\ IdleExtra

IngestBurst ==
    /\ Len(tasks) < MaxBurst
    /\ CreateSensorData("s1", 200)

NextBurst ==
    \/ IngestBurst
    \/ \E i \in 1..Len(tasks) :
          \/ PublishRedis(i)
          \/ ProduceKafka(i)
          \/ CacheGet(i)
          \/ DbQuery(i)
          \/ CacheSet(i)
          \/ Detect(i)
          \/ UpdateStatus(i)
          \/ CreateAlert(i)

SpecBurst == InitBurst /\ [][NextBurst]_vars

----------------------------------------------------------------------------
(* Specification SpecApi: the REST handlers create_sensor_data,            *)
(* get_sensor_data, get_latest_sensor_data (app/api/v1/sensors.py) and     *)
(* health_check (app/api/v1/monitoring.py) as a client sees them.  Each    *)
(* request is answered in one step; request and response keep the latest  *)
(* exchange.  The background tasks are only counted here (scheduled);      *)
(* specification Spec runs them.                                           *)

MaxPosts == 2
MaxApiTicks == 1

\* JSON null, None, SQL NULL, or a field that the request does not have
Null == "null"

\* Request bodies of POST /sensors/data; given is the set of fields that the
\* JSON document has.  Three valid bodies, one without the required
\* sensor_type, one without the required value and one with an empty sensor_id
Required == {"sensor_id", "sensor_type", "value", "unit"}

Bodies ==
    { [sensor_id |-> "s1", sensor_type |-> "temperature", value |-> 20,
       unit |-> "celsius", location |-> "lab",
       given |-> Required \cup {"location"}],
      [sensor_id |-> "s1", sensor_type |-> "humidity", value |-> 55,
       unit |-> "percent", location |-> Null, given |-> Required],
      [sensor_id |-> "s2", sensor_type |-> "temperature", value |-> 200,
       unit |-> "celsius", location |-> "roof",
       given |-> Required \cup {"location"}],
      [sensor_id |-> "s2", sensor_type |-> Null, value |-> 20,
       unit |-> "celsius", location |-> Null,
       given |-> Required \ {"sensor_type"}],
      [sensor_id |-> "s2", sensor_type |-> "temperature", value |-> 0,
       unit |-> "celsius", location |-> Null,
       given |-> Required \ {"value"}],
      [sensor_id |-> "", sensor_type |-> "temperature", value |-> 20,
       unit |-> "celsius", location |-> Null, given |-> Required] }

\* Query parameters of the GET requests
SensorFilters == {Null, "s1", "s2"}
TypeFilters == {Null, "temperature"}
DefaultLimit == 100
DefaultOffset == 0
Pages == {<<DefaultLimit, DefaultOffset>>, <<1, 0>>, <<1, 1>>, <<2, 1>>}

\* SensorDataCreate: sensor_id, sensor_type and unit are required strings of
\* at least one character, value is a required float
Valid(body) ==
    /\ Required \subseteq body.given
    /\ body.sensor_id \notin {Null, ""}
    /\ body.sensor_type \notin {Null, ""}
    /\ body.unit \notin {Null, ""}

InitApi ==
    /\ records = <<>>
    /\ scheduled = <<>>
    /\ request = NoRequest
    /\ response = NoRequest
    /\ threshold = MODEL_ACCURACY_THRESHOLD
    /\ clock = 1
    /\ preloaded = 0
    /\ db = <<>>
    /\ cache = <<>>
    /\ tasks = <<>>
    /\ alerts = <<>>
    /\ IdleModel /\ IdleTrain /\ IdleSeverity /\ IdleSequence /\ IdleCorpus

apiFrame == <<threshold, preloaded, db, cache, tasks, alerts, modelVars,
              trainVars, severityVars, sequenceVars, corpusVars>>

\* Time passes between two requests
TickApi ==
    /\ clock < 1 + MaxApiTicks
    /\ clock' = clock + 1
    /\ request' = NoRequest
    /\ response' = NoRequest
    /\ UNCHANGED <<records, scheduled, apiFrame>>

\* The row SensorData(**sensor_data.dict()) after commit and refresh
NewRecord(body, id) ==
    [id |-> id, sensor_id |-> body.sensor_id, sensor_type |-> body.sensor_type,
     timestamp |-> clock, value |-> body.value, unit |-> body.unit,
     location |-> body.location, is_anomaly |-> FALSE, anomaly_score |-> Null]

\* A plausible slip: the task is scheduled before the commit has succeeded
PostSensorDataEarlyTask(body, dbres) ==
    /\ Len(records) < MaxPosts
    /\ request' = [op |-> "post", body |-> body, dbres |-> dbres]
    /\ scheduled' = IF Valid(body)
                    THEN Append(scheduled, <<body, Len(records) + 1>>)
                    ELSE scheduled
    /\ IF ~Valid(body)
       THEN /\ response' = [status |-> 422]
            /\ records' = records
       ELSE IF dbres = "commit_raises"
       THEN /\ response' = [status |-> 500]
            /\ records' = records
       ELSE /\ records' = Append(records, NewRecord(body, Len(records) + 1))
            /\ response' = IF dbres = "refresh_raises" THEN [status |-> 500]
                           ELSE [status |-> 200,
                                 body |-> NewRecord(body, Len(records) + 1)]
    /\ UNCHANGED <<clock, apiFrame>>

\* POST /sensors/data, create_sensor_data: a body that fails validation is
\* answered 422 before the handler runs; a commit that raises is rolled back
\* and answered 500; a refresh that raises is answered 500 with the row
\* committed and no task; otherwise the row is returned and one task added
PostSensorData(body, dbres) ==
    /\ Len(records) < MaxPosts
    /\ request' = [op |-> "post", body |-> body, dbres |-> dbres]
    /\ IF ~Valid(body)
       THEN /\ response' = [status |-> 422]
            /\ UNCHANGED <<records, scheduled>>
       ELSE IF dbres = "commit_raises"
       THEN /\ response' = [status |-> 500]
            /\ UNCHANGED <<records, scheduled>>
       ELSE IF dbres = "refresh_raises"
       THEN /\ response' = [status |-> 500]
            /\ records' = Append(records, NewRecord(body, Len(records) + 1))
            /\ scheduled' = scheduled
       ELSE /\ records' = Append(records, NewRecord(body, Len(records) + 1))
            /\ scheduled' = Append(scheduled, <<body, Len(records) + 1>>)
            /\ response' = [status |-> 200,
                            body |-> NewRecord(body, Len(records) + 1)]
    /\ UNCHANGED <<clock, apiFrame>>

\* The ids of the rows that pass the filters: a filter that is None or empty
\* is not applied (if sensor_id: ..., if sensor_type: ...)
Matching(sensor_id, sensor_type) ==
    {id \in 1..Len(records) :
        /\ sensor_id \in {Null, ""} \/ records[id].sensor_id = sensor_id
        /\ sensor_type \in {Null, ""} \/ records[id].sensor_type = sensor_type}

\* A plausible slip: order_by(SensorData.timestamp) without desc
OrderingsAscending(ids) ==
    {o \in [1..Cardinality(ids) -> ids] :
        /\ \A a, b \in 1..Cardinality(ids) : a # b => o[a] # o[b]
        /\ \A a \in 1..(Cardinality(ids) - 1) :
              records[o[a]].timestamp <= records[o[a + 1]].timestamp}

\* order_by(desc(SensorData.timestamp)): the orders in which the database may
\* return the rows ids; rows of equal timestamp come in any order
Orderings(ids) ==
    {o \in [1..Cardinality(ids) -> ids] :
        /\ \A a, b \in 1..Cardinality(ids) : a # b => o[a] # o[b]
        /\ \A a \in 1..(Cardinality(ids) - 1) :
              records[o[a]].timestamp >= records[o[a + 1]].timestamp}

\* .limit(limit).offset(offset) of the ordered rows o
Page(o, limit, offset) ==
    [k \in 1..(IF Len(o) - offset < limit
               THEN (IF Len(o) > offset THEN Len(o) - offset ELSE 0)
               ELSE limit) |-> records[o[k + offset]]]

\* GET /sensors/data, get_sensor_data
GetSensorData(sensor_id, sensor_type, limit, offset, dbres) ==
    /\ request' = [op |-> "get_data", sensor_id |-> sensor_id,
                   sensor_type |-> sensor_type, limit |-> limit,
                   offset |-> offset, dbres |-> dbres]
    /\ IF dbres # "ok"
       THEN response' = [status |-> 500]
       ELSE \E o \in Orderings(Matching(sensor_id, sensor_type)) :
               response' = [status |-> 200, items |-> Page(o, limit, offset)]
    /\ UNCHANGED <<records, scheduled, clock, apiFrame>>

\* A plausible slip: the 404 raised inside the try block is caught by the
\* generic handler and answered 500
GetLatestNoReraise(sensor_id, dbres) ==
    /\ request' = [op |-> "get_latest", sensor_id |-> sensor_id, dbres |-> dbres]
    /\ IF dbres # "ok" \/ Matching(sensor_id, Null) = {}
       THEN response' = [status |-> 500]
       ELSE \E o \in Orderings(Matching(sensor_id, Null)) :
               response' = [status |-> 200, body |-> records[o[1]]]
    /\ UNCHANGED <<records, scheduled, clock, apiFrame>>

\* GET /sensors/data/{sensor_id}/latest, get_latest_sensor_data: the first
\* row in descending timestamp order; HTTPException(404) is re-raised, any
\* other exception is answered 500.  The path parameter is never empty.
GetLatest(sensor_id, dbres) ==
    /\ request' = [op |-> "get_latest", sensor_id |-> sensor_id, dbres |-> dbres]
    /\ IF dbres # "ok"
       THEN response' = [status |-> 500]
       ELSE IF {id \in 1..Len(records) : records[id].sensor_id = sensor_id} = {}
       THEN response' = [status |-> 404]
       ELSE \E o \in Orderings({id \in 1..Len(records) :
                                   records[id].sensor_id = sensor_id}) :
               response' = [status |-> 200, body |-> records[o[1]]]
    /\ UNCHANGED <<records, scheduled, clock, apiFrame>>

\* The Redis probe of health_check: cache_set("health_check", "ok", ttl=60)
\* raises when Redis cannot be reached
RedisProbe(redis_up) == redis_up

\* The database probe of health_check: await db.execute("SELECT 1").  The
\* session of SQLAlchemy 2 (async_sessionmaker, DeclarativeBase) does not
\* accept a plain string as a statement and raises ArgumentError before
\* anything is sent to the database
DatabaseProbe(db_up) == FALSE

\* GET /monitoring/health, health_check
HealthCheck(redis_up, db_up) ==
    /\ request' = [op |-> "health", redis_up |-> redis_up, db_up |-> db_up]
    /\ response' =
          [status |-> 200,
           body |-> [status |-> IF ~DatabaseProbe(db_up) THEN "unhealthy"
                                ELSE IF ~RedisProbe(redis_up) THEN "degraded"
                                ELSE "healthy",
                     timestamp |-> clock,
                     services |->
                        [redis |-> IF RedisProbe(redis_up) THEN "healthy"
                                   ELSE "unhealthy",
                         database |-> IF DatabaseProbe(db_up) THEN "healthy"
                                      ELSE "unhealthy"]]]
    /\ UNCHANGED <<records, scheduled, clock, apiFrame>>

DbResults == {"ok", "raises"}

NextApi ==
    \/ TickApi
    \/ \E body \in Bodies : \E dbres \in {"ok", "commit_raises", "refresh_raises"} :
          PostSensorData(body, dbres)
    \/ \E sensor_id \in SensorFilters : \E sensor_type \in TypeFilters :
       \E page \in Pages : \E dbres \in DbResults :
          GetSensorData(sensor_id, sensor_type, page[1], page[2], dbres)
    \/ \E sensor_id \in SensorFilters \ {Null} : \E dbres \in DbResults :
          GetLatest(sensor_id, dbres)
    \/ \E redis_up \in BOOLEAN : \E db_up \in BOOLEAN :
          HealthCheck(redis_up, db_up)

SpecApi == InitApi /\ [][NextApi]_vars

----------------------------------------------------------------------------
(* Properties of the severity policy (SpecSeverity) *)

Severities == {"low", "medium", "high", "critical"}

SeverityRank(sev) ==
    CASE sev = "low" -> 1 [] sev = "medium" -> 2 [] sev = "high" -> 3
      [] sev = "critical" -> 4

\* C2: _determine_severity maps every probability to exactly one tier:
\* p >= 0.9 critical, 0.8 <= p < 0.9 high, 0.6 <= p < 0.8 medium, p < 0.6 low
C2_SeverityTiers ==
    \A k \in 1..2 :
        sevOut[k] # "none" =>
            /\ sevOut[k] \in Severities
            /\ (sevIn[k] >= 90) <=> (sevOut[k] = "critical")
            /\ (sevIn[k] >= 80 /\ sevIn[k] < 90) <=> (sevOut[k] = "high")
            /\ (sevIn[k] >= 60 /\ sevIn[k] < 80) <=> (sevOut[k] = "medium")
            /\ (sevIn[k] < 60) <=> (sevOut[k] = "low")

\* C2 witness: the boundaries 0.9 and 0.8 have been classified
C2_Witness == sevIn = <<90, 80>> /\ sevOut = <<"critical", "high">>

\* C3: for p1 < p2 the tier of p1 is never ranked higher than the tier of p2
C3_SeverityMonotonic ==
    (sevOut[1] # "none" /\ sevOut[2] # "none" /\ sevIn[1] < sevIn[2]) =>
        SeverityRank(sevOut[1]) <= SeverityRank(sevOut[2])

\* C3 witness: two probabilities in different tiers have been classified
C3_Witness == sevIn[1] < sevIn[2] /\ sevOut = <<"medium", "high">>

----------------------------------------------------------------------------
(* Properties of sequence assembly (SpecSequence) *)

Rids(s) == {s[i].rid : i \in 1..Len(s)}

\* C5: with at least N = 24 feature vectors (that the scaler accepts) the
\* classifier gets exactly the last N vectors of the timestamp-ordered series, in chronological order: N rows,
\* each of a different point of the series, ascending in time, and no point
\* left out is later than a point kept
C5_LastNInOrder ==
    (xseq.outcome # "none" /\ Len(series) >= 24 /\ AllFinite(xseq.features)) =>
        /\ xseq.outcome = "scored"
        /\ Len(xseq.X_seq) = 24
        /\ \A i \in 1..Len(xseq.X_seq) :
              \E j \in 1..Len(series) :
                  /\ series[j].rid = xseq.X_seq[i].row.rid
                  /\ series[j].timestamp = xseq.X_seq[i].row.timestamp
                  /\ series[j].value = xseq.X_seq[i].row.value
        /\ \A i \in 1..(Len(xseq.X_seq) - 1) :
              xseq.X_seq[i].row.timestamp < xseq.X_seq[i + 1].row.timestamp
        /\ \A j \in 1..Len(series) :
              series[j].rid \notin {xseq.X_seq[i].row.rid : i \in 1..Len(xseq.X_seq)}
                  => series[j].timestamp < xseq.X_seq[1].row.timestamp

\* C5 witness: a series of more than N points, not handed over in
\* chronological order, has been assembled
C5_Witness ==
    /\ xseq.outcome = "scored"
    /\ Len(series) > 24
    /\ series[1].timestamp > series[Len(series)].timestamp

\* C18: the first point in timestamp order has value_diff 0 and
\* value_change_rate 0
C18_FirstPointZero ==
    (xseq.outcome # "none" /\ Len(series) >= 1) =>
        /\ \A j \in 1..Len(series) :
              xseq.features[1].timestamp <= series[j].timestamp
        /\ xseq.features[1].value_diff = 0
        /\ xseq.features[1].value_change_rate = Zero

\* C18 witness: the features of a series that was not handed over in
\* chronological order and whose second point differs from its first
C18_Witness ==
    /\ xseq.outcome # "none"
    /\ Len(series) >= 2
    /\ series[1].timestamp > series[Len(series)].timestamp
    /\ xseq.features[2].value_diff # 0
    /\ xseq.features[2].value_change_rate # Zero

\* C19: no feature is infinite, and the value_change_rate of a point whose
\* predecessor has value 0 is 0
C19_NoUndefinedFeature ==
    (xseq.outcome # "none") =>
        \A i \in 1..Len(xseq.features) :
            /\ IsFinite(xseq.features[i])
            /\ (i > 1 /\ xseq.features[i - 1].value = 0) =>
                   xseq.features[i].value_change_rate = Zero

\* The value of the point of the series with timestamp t
SeriesValue(t) ==
    series[CHOOSE j \in 1..Len(series) : series[j].timestamp = t].value

\* The sum of the values (or of their squares) of the points with the
\* timestamps T
RECURSIVE SeriesSum(_, _)
SeriesSum(T, squares) ==
    IF T = {} THEN 0
    ELSE LET t == CHOOSE x \in T : TRUE
             v == SeriesValue(t)
         IN (IF squares THEN v * v ELSE v) + SeriesSum(T \ {t}, squares)

\* The timestamps of the point at t and of its up to 23 immediate
\* predecessors (the series of this specification has one point per hour)
Trailing(t) ==
    {series[j].timestamp : j \in 1..Len(series)} \cap ((t - 23)..t)

\* C20: the rolling mean and the rolling deviation (as variance) of the point
\* at position i of the sorted series are those of min(i, 24) points, the
\* point and its up to 23 immediate predecessors; the deviation of a single
\* point is 0
C20_RollingWindow ==
    (xseq.outcome # "none") =>
        \A i \in 1..Len(xseq.features) :
            LET T  == Trailing(xseq.features[i].timestamp)
                n  == Cardinality(T)
                sm == SeriesSum(T, FALSE)
                sq == SeriesSum(T, TRUE)
            IN /\ n = IF i < 24 THEN i ELSE 24
               /\ xseq.features[i].rolling_mean_24h =
                      [kind |-> "finite", num |-> sm, den |-> n]
               /\ xseq.features[i].rolling_std_24h =
                      IF n = 1 THEN Zero
                      ELSE [kind |-> "finite", num |-> n * sq - sm * sm,
                            den |-> n * (n - 1)]

\* C20 witness: the features of a series of more than 24 points, not handed
\* over in chronological order
C20_Witness ==
    /\ xseq.outcome # "none"
    /\ Len(xseq.features) > 24
    /\ series[1].timestamp > series[Len(series)].timestamp
    /\ xseq.features[Len(series)].rolling_mean_24h.den = 24

----------------------------------------------------------------------------
(* Properties of the training sequences (SpecCorpus) *)

\* The label (0 or 1) of the corpus row with timestamp t
CorpusLabel(t) ==
    IF corpus[CHOOSE j \in 1..Len(corpus) : corpus[j].timestamp = t].is_anomaly
    THEN 1 ELSE 0

\* C21: for a corpus of M rows there are max(0, M - 24 + 1) sequences;
\* sequence i holds the rows i .. i + 23 of the timestamp-ordered frame, in
\* order, and its label is the label of row i + 23
C21_OverlappingSequences ==
    sequences.called =>
        LET M == Len(corpus)
            K == IF M >= 24 THEN M - 24 + 1 ELSE 0
        IN /\ Len(sequences.X) = K
           /\ Len(sequences.y) = K
           /\ \A i \in 1..K :
                 /\ Len(sequences.X[i]) = 24
                 /\ \A j \in 1..24 :
                       sequences.X[i][j].row.timestamp = i + j - 1
                 /\ sequences.y[i] = CorpusLabel(i + 23)

\* C21 witness: a corpus of more than 24 rows, not in chronological order,
\* gave several sequences with different labels
C21_Witness ==
    /\ sequences.called
    /\ Len(corpus) > 25
    /\ corpus[1].timestamp # 1
    /\ Len(sequences.X) = Len(corpus) - 23
    /\ sequences.y[1] # sequences.y[2]

----------------------------------------------------------------------------
(* Properties of the model life cycle (SpecModel) *)

\* C8: a training run that stops before persistence completes leaves the
\* serving model unchanged: where a classifier and a scaler were serving
\* before the call, the classifier and scaler after it are the same ones
C8_FailedTrainingKeepsModel ==
    (/\ lastTrain.stage \notin {"none", "ok"}
     /\ ~IsNone(lastTrain.pre[1])
     /\ ~IsNone(lastTrain.pre[2])) => lastTrain.post = lastTrain.pre

\* C9: every inference scores with a classifier and a scaler of the same
\* completed training run: never a classifier whose fit has not completed,
\* never a scaler of another run than the classifier
C9_ConsistentPair ==
    (lastPredict.outcome = "scored") =>
        /\ lastPredict.used_model.ready
        /\ lastPredict.used_scaler.ready
        /\ lastPredict.used_model.run = lastPredict.used_scaler.run

\* C10: load_model, attempted on an object without classifier while the
\* classifier artifact exists and the scaler artifact is absent or of
\* another run, leaves the object without classifier
C10_RefusesUnpairedClassifier ==
    (/\ lastLoad.called
     /\ IsNone(lastLoad.pre_model)
     /\ lastLoad.modelFile # 0
     /\ lastLoad.scalerFile # lastLoad.modelFile) => IsNone(lastLoad.model)

----------------------------------------------------------------------------
(* Properties of the ingestion pipeline (Spec) *)

\* C1: a detection result says is_anomaly only if the classifier was asked
\* and its probability is over the decision boundary 0.5 and at least the
\* alerting threshold; only such a result takes the task to
\* create_anomaly_alert, and every alert carries such a probability
C1_AlertOnlyAboveBoth ==
    /\ \A i \in 1..Len(tasks) :
          /\ (tasks[i].pc \in {"update_status", "create_alert"}
                /\ tasks[i].detection_result.is_anomaly) =>
                 /\ tasks[i].outcome = "scored"
                 /\ tasks[i].prob > DecisionBoundary
                 /\ tasks[i].prob >= threshold
                 /\ tasks[i].detection_result.anomaly_score = tasks[i].prob
          /\ tasks[i].pc = "create_alert" => tasks[i].detection_result.is_anomaly
    /\ \A a \in 1..Len(alerts) :
          /\ alerts[a].anomaly_score > DecisionBoundary
          /\ alerts[a].anomaly_score >= threshold

\* C1 witness: under the default threshold 0.95 one reading scored 0.95 has
\* its alert and another, scored 0.70 (over the boundary, under the
\* threshold), has been given the verdict "not anomalous"
C1_Witness ==
    /\ threshold = MODEL_ACCURACY_THRESHOLD
    /\ \E a \in 1..Len(alerts) : alerts[a].anomaly_score = 95
    /\ \E i \in 1..Len(tasks) :
          /\ tasks[i].pc = "update_status"
          /\ tasks[i].prob = 70
          /\ ~tasks[i].detection_result.is_anomaly

C6_ReadYourWrites ==
    \A i \in 1..Len(tasks) :
        (tasks[i].pc = "detect" /\ tasks[i].source \in {"cache", "store"}) =>
            \A id \in 1..tasks[i].sensor_data_id :
                (Table[id].sensor_id = tasks[i].sensor_data.sensor_id
                   /\ Table[id].timestamp >= clock - hours) =>
                    id \in WindowRids(Table, tasks[i].sensor_data.sensor_id,
                                      tasks[i].historical_data)

\* C7: a window never holds two entries of the same sensor with the same
\* timestamp
C7_NoDuplicateEntries ==
    \A i \in 1..Len(tasks) :
        (tasks[i].pc = "detect" /\ tasks[i].source \in {"cache", "store"}) =>
            \A a, b \in WindowRids(Table, tasks[i].sensor_data.sensor_id,
                                   tasks[i].historical_data) :
                a # b => Table[a].timestamp # Table[b].timestamp

\* C11: a detection that failed because the classifier artifact is missing
\* records nothing for the reading: the step of its task that follows
\* leaves is_anomaly and anomaly_score of the reading's row as they were
C11_FailedDetectionRecordsNothing ==
    [][\A i \in 1..Len(tasks) :
          (/\ tasks[i].pc = "update_status"
           /\ tasks[i].outcome = "raise"
           /\ modelFile = 0) =>
              LET k == tasks[i].sensor_data_id - preloaded
              IN /\ db'[k].is_anomaly = db[k].is_anomaly
                 /\ db'[k].anomaly_score = db[k].anomaly_score]_vars

\* C12: whatever happens to its background task, the reading of every task
\* stays stored as it was committed, one row per ingested reading
C12_StoredReadingKept ==
    /\ Len(db) = Len(tasks)
    /\ \A i \in 1..Len(tasks) :
          LET k == tasks[i].sensor_data_id - preloaded
          IN /\ k \in 1..Len(db)
             /\ db[k].sensor_id = tasks[i].sensor_data.sensor_id
             /\ db[k].value = tasks[i].sensor_data.value
             /\ db[k].timestamp <= clock

\* C12 witness: the task of one reading was abandoned after a failed publish,
\* the detection of a later reading ended as an error, and both rows are
\* stored
C12_Witness ==
    /\ Len(tasks) = 2
    /\ tasks[1].pc = "failed"
    /\ tasks[2].pc = "update_status"
    /\ tasks[2].detection_result.severity = "error"
    /\ db[2].timestamp > db[1].timestamp

\* C13: the window scored for a reading holds every reading of the sensor
\* that was stored before it
C13_NoHiddenReading ==
    \A i \in 1..Len(tasks) :
        (tasks[i].pc = "detect" /\ tasks[i].source \in {"cache", "store"}) =>
            \A id \in (preloaded + 1)..(tasks[i].sensor_data_id - 1) :
                id \in WindowRids(Table, tasks[i].sensor_data.sensor_id,
                                  tasks[i].historical_data)

\* The alerts of sensor s
AlertsOf(al, s) == SelectSeq(al, LAMBDA a : a.sensor_id = s)

\* C14: a step of the task of a reading of sensor A leaves the cache entry,
\* the stored readings and the alerts of every other sensor as they were
C14_OtherSensorsUntouched ==
    [][\A i \in 1..Len(tasks) :
          (Len(tasks') = Len(tasks) /\ tasks'[i] # tasks[i]) =>
              \A B \in Sensors \ {tasks[i].sensor_data.sensor_id} :
                  /\ cache'[B] = cache[B]
                  /\ preloaded' = preloaded
                  /\ Len(db') = Len(db)
                  /\ \A k \in 1..Len(db) :
                        db[k].sensor_id = B => db'[k] = db[k]
                  /\ AlertsOf(alerts', B) = AlertsOf(alerts, B)]_vars

\* C14 witness: both sensors have been processed: sensor s1 has an alert and
\* a cache entry, sensor s2 has a cache entry and a recorded status
C14_Witness ==
    /\ \E a \in 1..Len(alerts) : alerts[a].sensor_id = "s1"
    /\ cache["s1"].present /\ cache["s2"].present
    /\ \E k \in 1..Len(db) : db[k].sensor_id = "s2" /\ db[k].anomaly_score = 0
    /\ \E k \in 1..Len(db) : db[k].sensor_id = "s1" /\ db[k].is_anomaly

\* The rows of sensor s with a timestamp within the horizon
RowsInHorizon(s) ==
    {id \in 1..Len(Table) :
        Table[id].sensor_id = s /\ Table[id].timestamp >= clock - hours}

\* C15: a cache hit hands over the cached window and goes on without a
\* query; the query after a miss yields the sensor's rows within the
\* horizon, each once, in ascending timestamp order; the window is then
\* stored under the sensor's key with a time-to-live of 300 s
C15_CacheThenStore ==
    [][\A i \in 1..Len(tasks) :
          LET s == tasks[i].sensor_data.sensor_id
          IN /\ (tasks[i].pc = "cache_get" /\ tasks'[i].pc = "detect") =>
                   /\ cache[s].present
                   /\ tasks'[i].historical_data = cache[s].data
                   /\ cache' = cache
             /\ (tasks[i].pc = "db_query" /\ tasks'[i].pc = "cache_set") =>
                   \A w \in {WindowDicts(Table, s, tasks'[i].historical_data)} :
                       /\ {w[k].rid : k \in 1..Len(w)} = RowsInHorizon(s)
                       /\ Len(w) = Cardinality(RowsInHorizon(s))
                       /\ \A k \in 1..(Len(w) - 1) :
                             w[k].timestamp <= w[k + 1].timestamp
                       /\ cache' = cache
             /\ (/\ tasks[i].pc = "cache_set"
                 /\ tasks'[i].pc = "detect"
                 /\ tasks'[i].source = "store") =>
                   /\ tasks'[i].historical_data = tasks[i].historical_data
                   /\ cache' = [cache EXCEPT ![s] =
                                   [present |-> TRUE,
                                    data |-> tasks[i].historical_data,
                                    ttl |-> 300]]]_vars

\* C15 witness: an hour on, one task got its window from the store, without
\* the reading that has left the horizon, and another got it from the cache
C15_Witness ==
    /\ clock = InitialClock + 1
    /\ \E i, j \in 1..Len(tasks) :
          /\ tasks[i].pc = "detect" /\ tasks[i].source = "store"
          /\ tasks[i].sensor_data.sensor_id = "s1"
          /\ 1 \notin WindowRids(Table, "s1", tasks[i].historical_data)
          /\ 2 \in WindowRids(Table, "s1", tasks[i].historical_data)
          /\ tasks[j].pc = "detect" /\ tasks[j].source = "cache"
          /\ tasks[j].historical_data = tasks[i].historical_data

\* C16: an alert is built from the reading whose task creates it: sensor_id
\* and sensor_value of the reading, the classifier's probability, and the
\* tier of that probability, which is low, medium, high or critical
C16_AlertFromReading ==
    [][Len(alerts') > Len(alerts) =>
          LET a == alerts'[Len(alerts')]
          IN \E i \in 1..Len(tasks) :
                /\ tasks[i].pc = "create_alert" /\ tasks'[i].pc = "done"
                /\ a.rid = tasks[i].sensor_data_id
                /\ a.sensor_id = tasks[i].sensor_data.sensor_id
                /\ a.sensor_value = tasks[i].sensor_data.value
                /\ a.sensor_id = db[a.rid - preloaded].sensor_id
                /\ a.sensor_value = db[a.rid - preloaded].value
                /\ a.anomaly_score = tasks[i].prob
                /\ a.severity = DetermineSeverity(tasks[i].prob)
                /\ a.severity \in Severities]_vars

\* C16 witness: under the threshold 0.40 the reading of 200 scored 0.70 has
\* an alert of severity medium with sensor_value 200
C16_Witness ==
    \E a \in 1..Len(alerts) :
        /\ alerts[a].sensor_value = 200
        /\ alerts[a].anomaly_score = 70
        /\ alerts[a].severity = "medium"

\* C17: every task that reaches create_anomaly_alert adds exactly one alert;
\* an alert is never deleted; nothing but resolved and resolved_at of an
\* alert ever changes, and resolved never goes back to FALSE
C17_AlertLifecycle ==
    [][/\ Len(alerts') >= Len(alerts)
       /\ \A a \in 1..Len(alerts) :
             /\ alerts[a].resolved => alerts'[a].resolved
             /\ [alerts'[a] EXCEPT !.resolved = alerts[a].resolved,
                                   !.resolved_at = alerts[a].resolved_at]
                   = alerts[a]
       /\ \A i \in 1..Len(tasks) :
             (tasks[i].pc = "create_alert" /\ tasks'[i].pc = "done") =>
                 /\ Len(alerts') = Len(alerts) + 1
                 /\ alerts'[Len(alerts')].rid = tasks[i].sensor_data_id]_vars


----------------------------------------------------------------------------
(* Properties of the REST handlers (SpecApi) *)

\* The step stores exactly one new row, with the submitted fields, a fresh id
\* and a timestamp, and leaves the older rows alone
PersistsOne(body) ==
    /\ Len(records') = Len(records) + 1
    /\ SubSeq(records', 1, Len(records)) = records
    /\ \A k \in 1..Len(records) : records[k].id # records'[Len(records')].id
    /\ records'[Len(records')].sensor_id = body.sensor_id
    /\ records'[Len(records')].sensor_type = body.sensor_type
    /\ records'[Len(records')].value = body.value
    /\ records'[Len(records')].unit = body.unit
    /\ records'[Len(records')].location = body.location
    /\ records'[Len(records')].timestamp = clock

\* The step answers 200 with the new row and schedules exactly one task for it
ReturnsAndSchedulesOne ==
    /\ response'.status = 200
    /\ response'.body = records'[Len(records')]
    /\ Len(scheduled') = Len(scheduled) + 1
    /\ SubSeq(scheduled', 1, Len(scheduled)) = scheduled
    /\ scheduled'[Len(scheduled')][2] = records'[Len(records')].id

Supplied(req) ==
    {id \in 1..Len(records) :
        /\ req.sensor_id # Null => records[id].sensor_id = req.sensor_id
        /\ req.sensor_type # Null => records[id].sensor_type = req.sensor_type}

RecordsOf(sensor_id) ==
    {id \in 1..Len(records) : records[id].sensor_id = sensor_id}

\* The answer is a stored reading of the sensor than which no reading of the
\* sensor is later
AnswersLatest ==
    /\ response.status = 200
    /\ \E id \in RecordsOf(request.sensor_id) : records[id] = response.body
    /\ \A id \in RecordsOf(request.sensor_id) :
          records[id].timestamp <= response.body.timestamp

\* C24 as stated: GET /sensors/data/{sensor_id}/latest returns the stored
\* reading of that sensor with the greatest timestamp when the sensor has a
\* reading, and 404 when it has none.
C24_Original ==
    request.op = "get_latest" =>
       IF RecordsOf(request.sensor_id) # {}
       THEN AnswersLatest
       ELSE response.status = 404

\* C24, amended: when the query succeeds, GET /sensors/data/{sensor_id}/latest
\* returns the stored reading of that sensor with the greatest timestamp if
\* the sensor has a reading, and 404 (not 500, not another sensor's reading)
\* if it has none; when the query raises, the answer is 500 in both cases.
C24_LatestOrNotFound ==
    request.op = "get_latest" =>
       IF request.dbres # "ok"
       THEN response.status = 500
       ELSE IF RecordsOf(request.sensor_id) # {}
       THEN AnswersLatest
       ELSE response.status = 404

\* C24 witness: readings of another sensor are stored, none of the requested
\* one, and the answer is 404
C24_Witness ==
    /\ request.op = "get_latest"
    /\ request.dbres = "ok"
    /\ records # <<>>
    /\ RecordsOf(request.sensor_id) = {}
    /\ response.status = 404

----------------------------------------------------------------------------
(* Properties of the background task under failures (Spec) *)

\* The step ends the history load of task i
LoadEnds(i) ==
    /\ tasks[i].pc \in {"db_query", "cache_set"}
    /\ tasks'[i].pc \notin {"db_query", "cache_set"}

\* The step ends the history load of task i with an error
LoadFails(i) ==
    /\ LoadEnds(i)
    /\ tasks'[i].source = "error"

\* The step scores the reading of task i after a failed history load
ScoresAfterFailedLoad(i) ==
    /\ tasks[i].pc = "detect"
    /\ tasks[i].source = "error"
    /\ tasks'[i].pc # "detect"

\* C26 as stated: when the history load fails, get_historical_sensor_data
\* returns an empty window instead of raising, the reading is still scored
\* against that window, and the decision is the insufficient-history default
\* (not anomalous, score 0.0, not an error); the caller goes on.
C26_Original ==
    [][\A i \in 1..Len(tasks) :
          /\ LoadEnds(i) => tasks'[i].pc = "detect"
          /\ LoadFails(i) =>
                WindowRids(Table, tasks[i].sensor_data.sensor_id,
                           tasks'[i].historical_data) = {}
          /\ ScoresAfterFailedLoad(i) =>
                /\ tasks'[i].pc = "update_status"
                /\ tasks'[i].npoints = 1
                /\ tasks'[i].outcome = "insufficient"
                /\ ~tasks'[i].detection_result.is_anomaly
                /\ tasks'[i].detection_result.anomaly_score = 0
                /\ tasks'[i].detection_result.severity = "normal"]_vars

\* C26, amended: when the database query or the write of the window to the
\* cache raises, get_historical_sensor_data returns an empty window instead
\* of raising; the reading is then scored against that window alone (one
\* point), the result is not anomalous with score 0.0 and the task goes on to
\* record it.  The result is the insufficient-history default (severity
\* "normal") when the classifier and scaler are held or can be loaded, and
\* the error default (severity "error") when they are not.
C26_FailedLoadDegrades ==
    [][\A i \in 1..Len(tasks) :
          /\ LoadEnds(i) => tasks'[i].pc = "detect"
          /\ LoadFails(i) =>
                WindowRids(Table, tasks[i].sensor_data.sensor_id,
                           tasks'[i].historical_data) = {}
          /\ ScoresAfterFailedLoad(i) =>
                /\ tasks'[i].pc = "update_status"
                /\ tasks'[i].npoints = 1
                /\ ~tasks'[i].detection_result.is_anomaly
                /\ tasks'[i].detection_result.anomaly_score = 0
                /\ tasks'[i].usable =>
                      /\ tasks'[i].outcome = "insufficient"
                      /\ tasks'[i].detection_result.severity = "normal"
                /\ ~tasks'[i].usable =>
                      /\ tasks'[i].outcome = "raise"
                      /\ tasks'[i].detection_result.severity = "error"]_vars

\* C26 witness: a reading of the sensor whose history is in the store was
\* scored on one point, its own, and got the insufficient-history default
C26_Witness ==
    \E i \in 1..Len(tasks) :
        /\ tasks[i].pc = "update_status"
        /\ tasks[i].sensor_data.sensor_id = "s1"
        /\ RowsInHorizon("s1") # {}
        /\ tasks[i].npoints = 1
        /\ tasks[i].outcome = "insufficient"
        /\ tasks[i].detection_result.severity = "normal"


\* C27: a failure to publish the raw reading to the Redis channel or to the
\* Kafka topic does not abort the processing of the reading: whatever the
\* outcome of a publication, the task goes on to the next publication or to
\* the history load, so that the reading is scored, its status recorded and
\* a qualifying alert created.
C27_BusFailureDoesNotAbort ==
    [][\A i \in 1..Len(tasks) :
          (tasks[i].pc \in {"publish_redis", "produce_kafka"}
             /\ tasks'[i].pc # tasks[i].pc) =>
              tasks'[i].pc \in {"produce_kafka", "cache_get"}]_vars


\* C28: the series detect_anomaly scores for a reading, historical_data +
\* [current_data], holds that reading exactly once, as its last point: the
\* window handed to the detection, from the cache or from the store, has no
\* copy of the reading's own row.
C28_CurrentReadingOnce ==
    \A i \in 1..Len(tasks) :
        tasks[i].pc = "detect" =>
            tasks[i].sensor_data_id
               \notin WindowRids(Table, tasks[i].sensor_data.sensor_id,
                                 tasks[i].historical_data)


\* C29: once the background task of a reading has finished, the stored
\* reading has is_anomaly = True if and only if an alert for that reading
\* (same sensor_id, sensor_value and anomaly_score) has been persisted, also
\* when the status update or the alert insert failed.
C29_StatusMatchesAlerts ==
    \A i \in 1..Len(tasks) :
        tasks[i].pc = "done" =>
            \A row \in {db[tasks[i].sensor_data_id - preloaded]} :
                row.is_anomaly <=>
                    \E a \in 1..Len(alerts) :
                        /\ alerts[a].rid = tasks[i].sensor_data_id
                        /\ alerts[a].sensor_id = row.sensor_id
                        /\ alerts[a].sensor_value = row.value
                        /\ alerts[a].anomaly_score = row.anomaly_score


\* C30: with the default alerting threshold of 0.95 every alert that is ever
\* created has severity "critical"; the tiers low, medium and high do not
\* occur among the alerts.
C30_DefaultThresholdOnlyCritical ==
    threshold = MODEL_ACCURACY_THRESHOLD =>
        \A a \in 1..Len(alerts) :
            /\ alerts[a].anomaly_score >= MODEL_ACCURACY_THRESHOLD
            /\ alerts[a].severity = "critical"

\* C30 witness: under the default threshold an alert has been created, and a
\* reading scored 0.7 has finished without one
C30_Witness ==
    /\ threshold = MODEL_ACCURACY_THRESHOLD
    /\ Len(alerts) = 1
    /\ alerts[1].severity = "critical"
    /\ \E i \in 1..Len(tasks) :
          /\ tasks[i].pc = "done"
          /\ tasks[i].detection_result.anomaly_score = 70
          /\ tasks[i].sensor_data_id # alerts[1].rid

====
